---------------------------- MODULE Spec2Model ----------------------------
(***************************************************************************)
(* A model of the GTA V RPF7 browser: the archive reader (rpf.ts), the     *)
(* block cipher helpers (crypto.ts), the archive registry (rpf-manager.ts) *)
(* and the tool-call handler of the server (index.ts).                     *)
(*                                                                         *)
(* Strings are sequences of character codes, buffers are sequences of      *)
(* bytes, and a backing file is a size plus its bytes, so that decoding,   *)
(* lower-casing, splitting and joining are computed, not assumed.          *)
(***************************************************************************)
EXTENDS Integers, Sequences, FiniteSets, TLC

(***************************************************************************)
(* Bounds of the model.                                                    *)
(***************************************************************************)
\* how many 'initialize' requests a run of the server issues
MaxInitCalls == 2
\* how many other tool requests a run issues

(***************************************************************************)
(* Program constants.                                                      *)
(***************************************************************************)
RPF_VERSION == 1380992567
DIR_IDENT == 2147483392
RES_SIZE_MARK == 16777215
ENC_NONE == 0
ENC_OPEN == 1313165391
ENC_AES == 268435449
ENC_NG == 267386879
BLOCK == 512
HEADER_LEN == 16
ENTRY_LEN == 16
DEFAULT_MAX_DEPTH == 3
\* a u32 whose top bit is set is kept as this value: every use of such a
\* field in the code is a comparison this value answers the same way
U32_HIGH == 2147483647

(***************************************************************************)
(* Characters.                                                             *)
(***************************************************************************)
CH_SLASH == 47
CH_BACKSLASH == 92
CH_STAR == 42
CH_DOT == 46
S_rpf == <<46, 114, 112, 102>>
S_dotdot == <<46, 46>>
S_node_modules == <<110, 111, 100, 101, 95, 109, 111, 100, 117, 108, 101, 115>>

Min(a, b) == IF a < b THEN a ELSE b

Max(a, b) == IF a < b THEN b ELSE a

\* String.prototype.toLowerCase on ASCII
toLowerCase(s) == [i \in 1..Len(s) |-> IF s[i] \in 65..90 THEN s[i] + 32 ELSE s[i]]

\* String.prototype.toUpperCase on ASCII
toUpperCase(s) == [i \in 1..Len(s) |-> IF s[i] \in 97..122 THEN s[i] - 32 ELSE s[i]]

endsWith(s, suf) ==
  /\ Len(s) >= Len(suf)
  /\ SubSeq(s, Len(s) - Len(suf) + 1, Len(s)) = suf

startsWith(s, pre) ==
  /\ Len(s) >= Len(pre)
  /\ SubSeq(s, 1, Len(pre)) = pre

\* String.prototype.includes
includes(s, sub) ==
  \E i \in 0..(Len(s) - Len(sub)) : SubSeq(s, i + 1, i + Len(sub)) = sub

\* entryPath.split(/[\/\\]/): the segments between separators, empty ones kept
RECURSIVE splitFrom(_, _, _)
splitFrom(s, i, cur) ==
  IF i > Len(s) THEN <<cur>>
  ELSE IF s[i] = CH_SLASH \/ s[i] = CH_BACKSLASH
       THEN <<cur>> \o splitFrom(s, i + 1, <<>>)
       ELSE splitFrom(s, i + 1, Append(cur, s[i]))

splitPath(s) == splitFrom(s, 1, <<>>)

\* s.replace(/\\/g, '/')
replaceBackslashes(s) == [i \in 1..Len(s) |-> IF s[i] = CH_BACKSLASH THEN CH_SLASH ELSE s[i]]

\* Array.prototype.join(sep) on strings
RECURSIVE joinWith(_, _)
joinWith(parts, sep) ==
  IF parts = <<>> THEN <<>>
  ELSE IF Len(parts) = 1 THEN parts[1]
  ELSE parts[1] \o <<sep>> \o joinWith(Tail(parts), sep)

\* the default comparison of Array.prototype.sort: code units, shorter first
RECURSIVE strLess(_, _)
strLess(a, b) ==
  IF b = <<>> THEN FALSE
  ELSE IF a = <<>> THEN TRUE
  ELSE IF a[1] # b[1] THEN a[1] < b[1]
  ELSE strLess(Tail(a), Tail(b))

RECURSIVE sortStrings(_)
sortStrings(S) ==
  IF S = {} THEN <<>>
  ELSE LET m == CHOOSE x \in S : \A y \in S : y = x \/ strLess(x, y)
       IN <<m>> \o sortStrings(S \ {m})

(***************************************************************************)
(* Backing files and positioned reads.                                     *)
(* A file is [size, bytes]: bytes[i] is the byte at offset i-1; offsets    *)
(* below size that bytes does not cover hold 0 (padding).                  *)
(***************************************************************************)
byteAt(f, pos) ==
  IF pos < f.size /\ pos + 1 \in DOMAIN f.bytes THEN f.bytes[pos + 1] ELSE 0

\* fs.readSync(fd, buffer, 0, n, pos) into a zero-filled Buffer.alloc(n):
\* the buffer, and the count of bytes read that readSync returns
readSync(f, n, pos) ==
  [ buffer    |-> [i \in 1..n |-> byteAt(f, pos + i - 1)],
    bytesRead |-> Max(0, Min(n, f.size - pos)) ]

\* DataView.getUint32(o, true); o is a 0-based offset
getUint32(buf, o) ==
  IF buf[o + 4] >= 128 THEN U32_HIGH
  ELSE buf[o + 1] + 256 * buf[o + 2] + 65536 * buf[o + 3] + 16777216 * buf[o + 4]

getUint16(buf, o) == buf[o + 1] + 256 * buf[o + 2]

getUint24(buf, o) == buf[o + 1] + 256 * buf[o + 2] + 65536 * buf[o + 3]

(***************************************************************************)
(* crypto.ts.  The block cipher of node's crypto module and SHA-256 are    *)
(* library code: they are stood for by a fixed bijection on 16-byte blocks *)
(* (with its inverse) and by a fixed digest of 32 bytes.                   *)
(***************************************************************************)
\* createCipheriv('aes-128-ecb', PC_AES_KEY).update(block)
aesEncryptBlock(b) == [i \in 1..16 |-> (b[(i % 16) + 1] + 3 * i) % 256]

\* createDecipheriv('aes-128-ecb', PC_AES_KEY).update(block)
aesDecryptBlock(c) ==
  [j \in 1..16 |-> LET i == IF j = 1 THEN 16 ELSE j - 1 IN (c[i] + 256 - 3 * i) % 256]

\* rounds = data.length + 15 >> 4; a round of 16 bytes is deciphered, a
\* shorter last round is copied
\* decryptAES with rounds = data.length >> 4: the bytes after the last whole
\* block stay as Buffer.alloc left them
decryptAES_roundsDown(data) ==
  [k \in 1..Len(data) |->
     LET offset == ((k - 1) \div 16) * 16
     IN IF Len(data) - offset >= 16
        THEN aesDecryptBlock(SubSeq(data, offset + 1, offset + 16))[k - offset]
        ELSE 0]

decryptAES(data) ==
  [k \in 1..Len(data) |->
     LET offset == ((k - 1) \div 16) * 16
         blockSize == Min(16, Len(data) - offset)
     IN IF blockSize = 16
        THEN aesDecryptBlock(SubSeq(data, offset + 1, offset + 16))[k - offset]
        ELSE data[k]]

encryptAES(data) ==
  [k \in 1..Len(data) |->
     LET offset == ((k - 1) \div 16) * 16
         blockSize == Min(16, Len(data) - offset)
     IN IF blockSize = 16
        THEN aesEncryptBlock(SubSeq(data, offset + 1, offset + 16))[k - offset]
        ELSE data[k]]

RECURSIVE sumSeq(_)
sumSeq(s) == IF s = <<>> THEN 0 ELSE s[1] + sumSeq(Tail(s))

\* a ^ b on bytes
RECURSIVE xorByte(_, _, _)
xorByte(a, b, bits) ==
  IF bits = 0 THEN 0
  ELSE ((a + b) % 2) + 2 * xorByte(a \div 2, b \div 2, bits - 1)

\* sha256(name.toLowerCase() || size as 4 little-endian bytes): 32 bytes
generateNGKey(name, size) ==
  [i \in 1..32 |-> (sumSeq(toLowerCase(name)) + 31 * (size % 256) + 13 * i) % 256]

decryptNG(data, name, size) ==
  LET key == generateNGKey(name, size)
  IN [i \in 1..Len(data) |-> xorByte(data[i], key[((i - 1) % 32) + 1], 8)]

encryptNG(data, name, size) == decryptNG(data, name, size)

(***************************************************************************)
(* zlib.inflateSync is library code.  A well-formed stream is stood for by *)
(* the three bytes <<0x78, n, v>>, which inflate to n bytes of value v;    *)
(* every other buffer makes inflateSync throw.  The length of the result   *)
(* is decided by the stream alone.                                         *)
(***************************************************************************)
inflateSync(buf) ==
  IF Len(buf) = 3 /\ buf[1] = 120
  THEN [ok |-> TRUE, data |-> [i \in 1..buf[2] |-> buf[3]]]
  ELSE [ok |-> FALSE, data |-> <<>>]

(***************************************************************************)
(* rpf.ts: the entry records.  An entry is a record with the fields of the *)
(* three classes; the fields a class does not have keep their defaults.    *)
(* parent, root and the members of directories/files are 1-based indices   *)
(* into allEntries (0: none); file is the id of the owning RpfFile.        *)
(***************************************************************************)
NoId == <<>>

newEntry(kind) ==
  [ kind |-> kind, nameOffset |-> 0, name |-> <<>>, nameLower |-> <<>>,
    path |-> <<>>, parent |-> 0, file |-> NoId,
    entriesIndex |-> 0, entriesCount |-> 0, directories |-> <<>>, files |-> <<>>,
    fileOffset |-> 0, fileSize |-> 0, fileUncompressedSize |-> 0,
    isEncrypted |-> FALSE, encryptionType |-> 0 ]

isDirectory(e) == e.kind = "dir"

isFileEntry(e) == e.kind \in {"bin", "res"}

\* RpfDirectoryEntry.read
readDirectoryEntry(data, offset) ==
  LET h1 == getUint32(data, offset + 4)
      h2 == getUint32(data, offset + 8)
      h3 == getUint32(data, offset + 12)
      e  == [newEntry("dir") EXCEPT !.nameOffset = getUint32(data, offset),
                                    !.entriesIndex = h1,
                                    !.entriesCount = h2]
  IN IF h3 # DIR_IDENT
     THEN [ok |-> FALSE, err |-> "InvalidDirectoryEntry", e |-> e]
     ELSE [ok |-> TRUE, err |-> "", e |-> e]

\* RpfBinaryFileEntry.read: d1, d2 are the two little-endian 64-bit words
\* RpfBinaryFileEntry.read with isEncrypted = (encryptionType === 1)
readBinaryFileEntry_typeOne(data, offset) ==
  LET encryptionType == data[offset + 12]
      e == [newEntry("bin") EXCEPT
              !.nameOffset = getUint16(data, offset),
              !.fileSize = getUint24(data, offset + 2),
              !.fileOffset = getUint24(data, offset + 5),
              !.fileUncompressedSize = getUint24(data, offset + 8),
              !.encryptionType = encryptionType,
              !.isEncrypted = (encryptionType = 1)]
      high == \E k \in 13..16 : data[offset + k] # 0
  IN IF high
     THEN [ok |-> FALSE, err |-> "InvalidBinaryEntry", e |-> e]
     ELSE [ok |-> TRUE, err |-> "", e |-> e]

readBinaryFileEntry(data, offset) ==
  LET encryptionType == data[offset + 12]
      e == [newEntry("bin") EXCEPT
              !.nameOffset = getUint16(data, offset),
              !.fileSize = getUint24(data, offset + 2),
              !.fileOffset = getUint24(data, offset + 5),
              !.fileUncompressedSize = getUint24(data, offset + 8),
              !.encryptionType = encryptionType,
              !.isEncrypted = (encryptionType # 0)]
      high == \E k \in 13..16 : data[offset + k] # 0
  IN IF high
     THEN [ok |-> FALSE, err |-> "InvalidBinaryEntry", e |-> e]
     ELSE [ok |-> TRUE, err |-> "", e |-> e]

\* (flags & 0x7FF) << ((flags >> 11) & 0xF), from the bytes of flags
flagsVirtualSize(data, o) ==
  (data[o + 1] + 256 * (data[o + 2] % 8)) * (2 ^ ((data[o + 2] \div 8) % 16))

\* ((flags >> 15) & 0x7F) << ((flags >> 25) & 0xF)
flagsPhysicalSize(data, o) ==
  ((data[o + 2] \div 128) + 2 * (data[o + 3] % 64)) * (2 ^ ((data[o + 4] \div 2) % 16))

\* RpfResourceFileEntry.getResourceSize; o is the offset of systemFlags
getResourceSize(data, o) ==
  LET baseSize == IF (data[o + 4] \div 8) % 2 = 1 THEN 16 ELSE 0
  IN baseSize + flagsVirtualSize(data, o) + flagsPhysicalSize(data, o)
       + flagsVirtualSize(data, o + 4) + flagsPhysicalSize(data, o + 4)

\* RpfResourceFileEntry.read
readResourceFileEntry(data, offset) ==
  LET size == getUint24(data, offset + 2)
      e == [newEntry("res") EXCEPT
              !.nameOffset = getUint16(data, offset),
              !.fileSize = IF size = RES_SIZE_MARK
                           THEN getResourceSize(data, offset + 8) ELSE size,
              !.fileOffset = getUint24(data, offset + 5),
              !.fileUncompressedSize = IF size = RES_SIZE_MARK
                           THEN getResourceSize(data, offset + 8) ELSE 0]
  IN [ok |-> TRUE, err |-> "", e |-> e]

\* the choice of class in parseEntries: h2 is the u32 at offset + 8
entryKindOf(data, offset) ==
  IF getUint32(data, offset + 8) = DIR_IDENT THEN "dir"
  ELSE IF data[offset + 12] < 128 THEN "bin"
  ELSE "res"

\* entry.read(entriesView, offset) on the class chosen
readEntry(data, offset) ==
  LET k == entryKindOf(data, offset)
  IN IF k = "dir" THEN readDirectoryEntry(data, offset)
     ELSE IF k = "bin" THEN readBinaryFileEntry(data, offset)
     ELSE readResourceFileEntry(data, offset)

\* RpfFile.readName: up to the first NUL at or after offset, or the end
RECURSIVE readNameFrom(_, _)
readNameFrom(namesData, end) ==
  IF end < Len(namesData) /\ namesData[end + 1] # 0
  THEN <<namesData[end + 1]>> \o readNameFrom(namesData, end + 1)
  ELSE <<>>

readName(namesData, offset) == readNameFrom(namesData, offset)

(***************************************************************************)
(* Building the bytes of archive images, for the files on disk below.      *)
(***************************************************************************)
le16(w) == <<w % 256, (w \div 256) % 256>>

le24(w) == <<w % 256, (w \div 256) % 256, (w \div 65536) % 256>>

le32(w) == <<w % 256, (w \div 256) % 256, (w \div 65536) % 256, (w \div 16777216) % 256>>

headerBytes(version, entryCount, namesLength, encryption) ==
  le32(version) \o le32(entryCount) \o le32(namesLength) \o le32(encryption)

\* a directory record as RpfDirectoryEntry.read takes it: name offset at 0,
\* entries index at 4, entries count at 8, identifier at 12
dirRecord(nameOffset, entriesIndex, entriesCount, ident) ==
  le32(nameOffset) \o le32(entriesIndex) \o le32(entriesCount) \o le32(ident)

\* a binary file record: d1 = name offset | size << 16 | block offset << 40,
\* d2 = uncompressed size | encryption type << 24
binRecord(nameOffset, fileSize, fileOffset, uncompressedSize, encryptionType) ==
  le16(nameOffset) \o le24(fileSize) \o le24(fileOffset)
    \o le24(uncompressedSize) \o <<encryptionType>> \o <<0, 0, 0, 0>>

\* a resource file record: d2 = system flags | graphics flags << 32
resRecord(nameOffset, fileSize, fileOffset, systemFlags, graphicsFlags) ==
  le16(nameOffset) \o le24(fileSize) \o le24(fileOffset) \o systemFlags \o graphicsFlags

zeros(n) == [i \in 1..n |-> 0]

padTo(bytes, n) == bytes \o zeros(n - Len(bytes))

Range(s) == {s[i] : i \in DOMAIN s}

\* a file of the given size holding each chunk's data at its offset
mkFile(size, chunks) ==
  [ size  |-> size,
    bytes |-> [p \in UNION {(c.at + 1)..(c.at + Len(c.data)) : c \in Range(chunks)} |->
                 LET c == CHOOSE c \in Range(chunks) : p \in (c.at + 1)..(c.at + Len(c.data))
                 IN c.data[p - c.at]] ]

(***************************************************************************)
(* The files on disk.                                                      *)
(***************************************************************************)
HELLO == <<72, 69, 76, 76, 79>>

\* E1: header {RPF7, 2, 16, NONE}; entry 0 the root directory over [1,2);
\* entry 1 the binary file "hi" (name offset 9, size 5, block offset 1);
\* the payload HELLO at byte offset 512
E1_names == padTo(<<0>> \o <<114, 111, 111, 116>> \o <<0, 0, 0, 0>> \o <<104, 105>> \o <<0>>, 16)

E1_image ==
  headerBytes(RPF_VERSION, 2, 16, ENC_NONE)
    \o dirRecord(0, 1, 1, DIR_IDENT)
    \o binRecord(9, 5, 1, 0, 0)
    \o E1_names

F_e1 == mkFile(517, <<[at |-> 0, data |-> E1_image], [at |-> 512, data |-> HELLO]>>)

\* E3: a header whose version tag is 0x52504638
F_badVersion == mkFile(16, <<[at |-> 0, data |-> headerBytes(RPF_VERSION + 1, 0, 0, ENC_NONE)]>>)

\* an archive of one binary file "a.txt" and no directory record
F_flat ==
  mkFile(515, << [at |-> 0, data |-> headerBytes(RPF_VERSION, 1, 8, ENC_NONE)
                                       \o binRecord(0, 3, 1, 0, 0)
                                       \o padTo(<<97, 46, 116, 120, 116>> \o <<0>>, 8)],
                 [at |-> 512, data |-> <<1, 2, 3>>] >>)

\* an archive with no entries
F_empty == mkFile(16, <<[at |-> 0, data |-> headerBytes(RPF_VERSION, 0, 0, ENC_NONE)]>>)

\* pack.rpf: block 0 is empty; block 1 holds an archive of the one binary file
\* "a.txt" (payload in block 4), blocks 2 and 3 an archive with no entries
\* each, block 7 the E1 image; blocks 4, 5, 6, 8 and 9 hold payloads, and
\* the file ends 3 bytes into block 9
F_pack ==
  mkFile(9 * BLOCK + 3,
         << [at |-> BLOCK, data |-> headerBytes(RPF_VERSION, 1, 8, ENC_NONE)
                                       \o binRecord(0, 3, 3, 0, 0)
                                       \o padTo(<<97, 46, 116, 120, 116>> \o <<0>>, 8)],
            [at |-> 2 * BLOCK, data |-> headerBytes(RPF_VERSION, 0, 0, ENC_NONE)],
            [at |-> 3 * BLOCK, data |-> headerBytes(RPF_VERSION, 0, 0, ENC_NONE)],
            [at |-> 4 * BLOCK, data |-> <<1, 2, 3>>],
            [at |-> 5 * BLOCK, data |-> HELLO],
            [at |-> 6 * BLOCK, data |-> <<120, 4, 9>>],
            [at |-> 7 * BLOCK, data |-> E1_image],
            [at |-> 8 * BLOCK, data |-> <<120, 2, 7>>],
            [at |-> 9 * BLOCK, data |-> <<7, 7, 7>>] >>)

\* E1 with the identifier of its directory record rewritten to 0x7FFFFF01
F_e1x ==
  mkFile(517, << [at |-> 0, data |-> headerBytes(RPF_VERSION, 2, 16, ENC_NONE)
                                       \o dirRecord(0, 1, 1, DIR_IDENT + 1)
                                       \o binRecord(9, 5, 1, 0, 0)
                                       \o E1_names],
                 [at |-> 512, data |-> HELLO] >>)

N_e1x == <<101, 49, 120, 46, 114, 112, 102>>
N_ng == <<110, 103, 46, 114, 112, 102>>
N_res == <<114, 101, 115, 46, 114, 112, 102>>

\* an archive in NG mode: the record of the one binary file "a.txt" and the
\* names are stored XORed with the key that scanStructure derives from the
\* file name and the file size
F_ng ==
  mkFile(515, << [at |-> 0, data |-> headerBytes(RPF_VERSION, 1, 16, ENC_NG)
                                       \o encryptNG(binRecord(0, 3, 1, 0, 0), N_ng, 515)
                                       \o encryptNG(padTo(<<97, 46, 116, 120, 116>>, 16), N_ng, 515)],
                 [at |-> 512, data |-> <<1, 2, 3>>] >>)

\* an archive of two resource records with the size field 0xFFFFFF and no
\* directory record: "r.ydr" with system flags 0x00000001, "s.ydr" with
\* system flags 0x80000001, graphics flags 0 in both
F_res ==
  mkFile(513, << [at |-> 0, data |-> headerBytes(RPF_VERSION, 2, 16, ENC_NONE)
                                       \o resRecord(0, RES_SIZE_MARK, 1, <<1, 0, 0, 0>>, <<0, 0, 0, 0>>)
                                       \o resRecord(6, RES_SIZE_MARK, 1, <<1, 0, 0, 128>>, <<0, 0, 0, 0>>)
                                       \o padTo(<<114, 46, 121, 100, 114, 0, 115, 46, 121, 100, 114>>, 16)],
                 [at |-> 512, data |-> <<5>>] >>)

\* the archive of flat.rpf under the version tag 0x52504638
F_v8 ==
  mkFile(515, << [at |-> 0, data |-> headerBytes(RPF_VERSION + 1, 1, 8, ENC_NONE)
                                       \o binRecord(0, 3, 1, 0, 0)
                                       \o padTo(<<97, 46, 116, 120, 116>> \o <<0>>, 8)],
                 [at |-> 512, data |-> <<1, 2, 3>>] >>)

N_v8 == <<118, 56, 46, 114, 112, 102>>

\* a payload of two whole cipher blocks and two more bytes
ENC_PLAIN == [i \in 1..34 |-> (7 * i + 1) % 256]

N_p9 == <<112, 57>>
N_pz == <<112, 122>>

\* the file of an archive on /e: block 1 holds the payload as it is, block
\* 2 the payload enciphered with the AES key, blocks 3 and 4 the payload
\* XORed with the NG key of the entry "p9" of uncompressed size 0 and of the
\* entry "pz" of uncompressed size 34
F_enc ==
  mkFile(5 * BLOCK,
         << [at |-> BLOCK, data |-> ENC_PLAIN],
            [at |-> 2 * BLOCK, data |-> encryptAES(ENC_PLAIN)],
            [at |-> 3 * BLOCK, data |-> encryptNG(ENC_PLAIN, N_p9, 0)],
            [at |-> 4 * BLOCK, data |-> encryptNG(ENC_PLAIN, N_pz, 34)] >>)

P_e == <<47, 101>>
N_aes == <<97, 101, 115, 46, 114, 112, 102>>
N_open == <<111, 112, 101, 110, 46, 114, 112, 102>>
N_none == <<110, 111, 110, 101, 46, 114, 112, 102>>

P_c == <<47, 99>>
P_g == <<47, 103>>
P_p == <<47, 112>>
N_pack == <<112, 97, 99, 107, 46, 114, 112, 102>>
K_mix == <<109, 105, 120, 46, 114, 112, 102>>
P_h == <<47, 104>>
P_nope == <<47, 110, 111, 112, 101>>
N_flat == <<102, 108, 97, 116, 46, 114, 112, 102>>
N_e1 == <<101, 49, 46, 114, 112, 102>>
N_more == <<77, 79, 82, 69, 46, 82, 80, 70>>
N_deep == <<100, 101, 101, 112, 46, 114, 112, 102>>
N_sub == <<115, 117, 98>>
N_git == <<46, 103, 105, 116>>

\* path.join(dirPath, name)
pathJoin(dirPath, name) == dirPath \o <<CH_SLASH>> \o name

\* fs.readdirSync(dirPath, {withFileTypes: true}) of the directories on disk
DiskDirs ==
  (P_g :> << [name |-> N_flat, isDirectory |-> FALSE],
             [name |-> N_git, isDirectory |-> TRUE],
             [name |-> N_e1, isDirectory |-> FALSE],
             [name |-> N_sub, isDirectory |-> TRUE] >>)
  @@ (pathJoin(P_g, N_git) :> << [name |-> N_flat, isDirectory |-> FALSE] >>)
  @@ (pathJoin(P_g, N_sub) :> << [name |-> N_deep, isDirectory |-> FALSE] >>)
  @@ (P_h :> << [name |-> N_flat, isDirectory |-> FALSE],
                [name |-> N_more, isDirectory |-> FALSE] >>)
  @@ (P_p :> << [name |-> N_pack, isDirectory |-> FALSE],
                [name |-> K_mix, isDirectory |-> FALSE] >>)
  @@ (P_e :> << [name |-> N_aes, isDirectory |-> FALSE],
                [name |-> N_ng, isDirectory |-> FALSE],
                [name |-> N_open, isDirectory |-> FALSE],
                [name |-> N_none, isDirectory |-> FALSE] >>)
  @@ (P_c :> << [name |-> N_v8, isDirectory |-> FALSE],
                [name |-> N_e1x, isDirectory |-> FALSE],
                [name |-> N_ng, isDirectory |-> FALSE],
                [name |-> N_res, isDirectory |-> FALSE] >>)

\* the regular files on disk
DiskFiles ==
  (pathJoin(P_g, N_flat) :> F_flat)
  @@ (pathJoin(P_g, N_e1) :> F_e1)
  @@ (pathJoin(pathJoin(P_g, N_git), N_flat) :> F_flat)
  @@ (pathJoin(pathJoin(P_g, N_sub), N_deep) :> F_empty)
  @@ (pathJoin(P_h, N_flat) :> F_badVersion)
  @@ (pathJoin(P_h, N_more) :> F_empty)
  @@ (pathJoin(P_p, N_pack) :> F_pack)
  @@ (pathJoin(P_p, K_mix) :> F_pack)
  @@ (pathJoin(P_e, N_aes) :> F_enc)
  @@ (pathJoin(P_e, N_ng) :> F_enc)
  @@ (pathJoin(P_e, N_open) :> F_enc)
  @@ (pathJoin(P_e, N_none) :> F_enc)
  @@ (pathJoin(P_c, N_v8) :> F_v8)
  @@ (pathJoin(P_c, N_e1x) :> F_e1x)
  @@ (pathJoin(P_c, N_ng) :> F_ng)
  @@ (pathJoin(P_c, N_res) :> F_res)

\* fs.existsSync
existsSync(p) == p \in DOMAIN DiskDirs \/ p \in DOMAIN DiskFiles

(***************************************************************************)
(* rpf.ts: RpfFile.  An RpfFile is a record of the class's fields; id      *)
(* stands for the identity of the object, parent is the id of the          *)
(* enclosing RpfFile and children holds the nested RpfFile records.        *)
(***************************************************************************)
\* fs.statSync(filePath).size inside the constructor's try: 0 if it throws
statSize(files, filePath) ==
  IF filePath \in DOMAIN files THEN files[filePath].size ELSE 0

\* the constructor
newRpfFile(id, filePath, fileName, startPos, parent) ==
  [ id |-> id, filePath |-> filePath, fileName |-> fileName,
    nameUpper |-> toUpperCase(fileName),
    fileSize |-> statSize(DiskFiles, filePath),
    startPos |-> startPos, version |-> 0, encryption |-> ENC_NONE,
    entryCount |-> 0, namesLength |-> 0,
    isAESEncrypted |-> FALSE, isNGEncrypted |-> FALSE,
    allEntries |-> <<>>, root |-> 0, parent |-> parent, children |-> <<>> ]

fdOpen(id) == [op |-> "open", fd |-> id]

fdClose(id) == [op |-> "close", fd |-> id]

\* the descriptor of a payload read; a scan's descriptor is named by the id
\* of the RpfFile that opened it
readFd == <<0>>

\* `${currentPath}\\${name}`, or name alone under an empty currentPath
childPath(currentPath, name) ==
  IF currentPath # <<>> THEN currentPath \o <<CH_BACKSLASH>> \o name ELSE name

\* RpfFile.updatePaths.  fuel is the call depth left: a directory graph with
\* a cycle recurses until the stack is exhausted, which throws RangeError;
\* without a cycle the depth stays below the number of entries.
RECURSIVE updatePaths(_, _, _, _)
RECURSIVE updateSubdirPaths(_, _, _, _, _)
updatePaths(es, dir, currentPath, fuel) ==
  LET files(r) ==
        IF ~r.ok THEN r
        ELSE [ok |-> TRUE,
              es |-> [i \in DOMAIN r.es |->
                        IF i \in Range(r.es[dir].files)
                        THEN [r.es[i] EXCEPT !.path = childPath(currentPath, r.es[i].name)]
                        ELSE r.es[i]]]
  IN IF fuel = 0 THEN [ok |-> FALSE, es |-> es]
     ELSE files(updateSubdirPaths(es, dir, 1, currentPath, fuel))

updateSubdirPaths(es, dir, k, currentPath, fuel) ==
  LET rest(r) == IF ~r.ok THEN r ELSE updateSubdirPaths(r.es, dir, k + 1, currentPath, fuel)
      into(subdir, p) == rest(updatePaths([es EXCEPT ![subdir].path = p], subdir, p, fuel - 1))
  IN IF k > Len(es[dir].directories) THEN [ok |-> TRUE, es |-> es]
     ELSE into(es[dir].directories[k],
               childPath(currentPath, es[es[dir].directories[k]].name))

\* the indices i + 1 for i in [entriesIndex, entriesIndex + entriesCount)
childRange(e) == [k \in 1..e.entriesCount |-> e.entriesIndex + k]

\* a directory whose loop reaches an index with no entry: child.parent = dir
\* on undefined throws TypeError
rangeOverrun(e, n) ==
  /\ e.entriesCount > 0
  /\ (e.entriesIndex >= n \/ e.entriesCount > n - e.entriesIndex)

\* RpfFile.buildHierarchy: every directory, in array order, takes the entries
\* of its range as children and becomes their parent (the last directory to
\* do so stays the parent); entry 0, if a directory, is the root
buildHierarchy(rpf) ==
  LET es == rpf.allEntries
      n  == Len(es)
      inRange(d, c) == isDirectory(es[d]) /\ c \in Range(childRange(es[d]))
      lastParent(ps) == IF ps = {} THEN 0 ELSE CHOOSE d \in ps : \A x \in ps : x <= d
      linked ==
        [c \in 1..n |->
           IF isDirectory(es[c])
           THEN [es[c] EXCEPT
                   !.parent = lastParent({d \in 1..n : inRange(d, c)}),
                   !.directories = SelectSeq(childRange(es[c]), LAMBDA i : isDirectory(es[i])),
                   !.files = SelectSeq(childRange(es[c]), LAMBDA i : isFileEntry(es[i]))]
           ELSE [es[c] EXCEPT !.parent = lastParent({d \in 1..n : inRange(d, c)})]]
      root == IF n > 0 /\ isDirectory(es[1]) THEN 1 ELSE 0
      done(r) == IF ~r.ok THEN [ok |-> FALSE, err |-> "RangeError", rpf |-> rpf]
                 ELSE [ok |-> TRUE, err |-> "",
                       rpf |-> [rpf EXCEPT !.allEntries = r.es, !.root = root]]
      paths(l) == done(IF root = 0 THEN [ok |-> TRUE, es |-> l]
                       ELSE updatePaths([l EXCEPT ![1].path = rpf.filePath], root, <<>>, n + 1))
  IN IF \E d \in 1..n : isDirectory(es[d]) /\ rangeOverrun(es[d], n)
     THEN [ok |-> FALSE, err |-> "TypeError", rpf |-> rpf]
     ELSE paths(linked)

\* RpfFile.parseEntries: the records are read in order and the first one
\* that does not read throws
parseEntries(rpf, entriesData, namesData) ==
  LET named(e, name) == [e EXCEPT !.name = name, !.nameLower = toLowerCase(name),
                                  !.file = rpf.id]
      first(bad) == CHOOSE i \in bad : \A j \in bad : i <= j
      from(reads, bad) ==
        IF bad # {}
        THEN [ok |-> FALSE, err |-> reads[first(bad)].err, rpf |-> rpf]
        ELSE buildHierarchy(
               [rpf EXCEPT !.allEntries =
                  [i \in 1..rpf.entryCount |->
                     named(reads[i].e, readName(namesData, reads[i].e.nameOffset))]])
      check(reads) == from(reads, {i \in 1..rpf.entryCount : ~reads[i].ok})
  IN check([i \in 1..rpf.entryCount |-> readEntry(entriesData, (i - 1) * ENTRY_LEN)])

\* a header without the version test: every tag is taken for RPF7
isRpf7_anyVersion(version) == TRUE

\* this.version !== 0x52504637 throws
isRpf7(version) == version = RPF_VERSION

\* RpfFile.findRpfFiles: the '.rpf' files of dir, then those of its
\* sub-directories in order
RECURSIVE RpfFile_findRpfFiles(_, _)
RECURSIVE findRpfFilesIn(_, _, _)
RpfFile_findRpfFiles(es, dir) ==
  SelectSeq(es[dir].files, LAMBDA i : endsWith(es[i].nameLower, S_rpf))
    \o findRpfFilesIn(es, es[dir].directories, 1)

findRpfFilesIn(es, dirs, k) ==
  IF k > Len(dirs) THEN <<>>
  ELSE RpfFile_findRpfFiles(es, dirs[k]) \o findRpfFilesIn(es, dirs, k + 1)

\* RpfFile.scanStructure and RpfFile.scanNestedRpfs.  The result carries the
\* RpfFile as the call leaves it and fds, the descriptors the call opened and
\* closed, in order.
RECURSIVE scanStructure(_)
RECURSIVE scanNestedRpfs(_)
RECURSIVE scanNestedFrom(_, _, _)
scanStructure(rpf0) ==
  LET fds(inner) == <<fdOpen(rpf0.id)>> \o inner \o <<fdClose(rpf0.id)>>
      throw(err, rpf) == [ok |-> FALSE, err |-> err, rpf |-> rpf, fds |-> fds(<<>>)]
      decrypt(rpf, buffer) ==
        IF rpf.encryption = ENC_AES THEN decryptAES(buffer)
        ELSE IF rpf.encryption = ENC_NG THEN decryptNG(buffer, rpf.fileName, rpf.fileSize)
        ELSE buffer
      scanned(nested) == [ok |-> TRUE, err |-> "", rpf |-> nested.rpf, fds |-> fds(nested.fds)]
      nest(parsed) == IF ~parsed.ok THEN throw(parsed.err, parsed.rpf)
                      ELSE scanned(scanNestedRpfs(parsed.rpf))
      tables(f, rpf, entriesSize) ==
        nest(parseEntries(rpf,
               decrypt(rpf, readSync(f, entriesSize, rpf.startPos + HEADER_LEN).buffer),
               decrypt(rpf, readSync(f, rpf.namesLength,
                                     rpf.startPos + HEADER_LEN + entriesSize).buffer)))
      header(f, rpf) ==
        IF ~isRpf7(rpf.version) THEN throw("InvalidVersion", rpf)
        ELSE tables(f, [rpf EXCEPT !.isAESEncrypted = (rpf.encryption = ENC_AES),
                                   !.isNGEncrypted = (rpf.encryption = ENC_NG)],
                    rpf.entryCount * ENTRY_LEN)
      fields(f, headerBuffer) ==
        header(f, [rpf0 EXCEPT !.version = getUint32(headerBuffer, 0),
                               !.entryCount = getUint32(headerBuffer, 4),
                               !.namesLength = getUint32(headerBuffer, 8),
                               !.encryption = getUint32(headerBuffer, 12)])
      open(files) ==
        IF rpf0.filePath \notin DOMAIN files
        THEN [ok |-> FALSE, err |-> "ENOENT", rpf |-> rpf0, fds |-> <<>>]
        ELSE fields(files[rpf0.filePath],
                    readSync(files[rpf0.filePath], HEADER_LEN, rpf0.startPos).buffer)
  IN open(DiskFiles)

\* the loop of scanNestedRpfs from the k-th '.rpf' file entry on
\* scanNestedRpfs whose loop ends at the first nested archive that fails
RECURSIVE scanNestedFrom_stopAtFailure(_, _, _)
scanNestedFrom_stopAtFailure(rpf, rpfFiles, k) ==
  LET joined(s, rest) == [rpf |-> rest.rpf, fds |-> s.fds \o rest.fds]
      nested(i, s) ==
        IF ~s.ok THEN [rpf |-> rpf, fds |-> s.fds]
        ELSE joined(s, scanNestedFrom_stopAtFailure(
                         [rpf EXCEPT !.children = Append(@, s.rpf),
                                     !.allEntries[i].file = s.rpf.id],
                         rpfFiles, k + 1))
      entry(i, rpfEntry) ==
        IF rpfEntry.kind # "bin" THEN scanNestedFrom_stopAtFailure(rpf, rpfFiles, k + 1)
        ELSE nested(i, scanStructure(newRpfFile(Append(rpf.id, k), rpf.filePath, rpfEntry.name,
                                                rpfEntry.fileOffset * BLOCK, rpf.id)))
  IN IF k > Len(rpfFiles) THEN [rpf |-> rpf, fds |-> <<>>]
     ELSE entry(rpfFiles[k], rpf.allEntries[rpfFiles[k]])

scanNestedFrom(rpf, rpfFiles, k) ==
  LET joined(s, rest) == [rpf |-> rest.rpf, fds |-> s.fds \o rest.fds]
      nested(i, s) ==
        joined(s, scanNestedFrom(IF s.ok
                                 THEN [rpf EXCEPT !.children = Append(@, s.rpf),
                                                  !.allEntries[i].file = s.rpf.id]
                                 ELSE rpf,
                                 rpfFiles, k + 1))
      entry(i, rpfEntry) ==
        IF rpfEntry.kind # "bin" THEN scanNestedFrom(rpf, rpfFiles, k + 1)
        ELSE nested(i, scanStructure(newRpfFile(Append(rpf.id, k), rpf.filePath, rpfEntry.name,
                                                rpfEntry.fileOffset * BLOCK, rpf.id)))
  IN IF k > Len(rpfFiles) THEN [rpf |-> rpf, fds |-> <<>>]
     ELSE entry(rpfFiles[k], rpf.allEntries[rpfFiles[k]])

\* RpfFile.scanNestedRpfs: nothing without a root
scanNestedRpfs(rpf) ==
  IF rpf.root = 0 THEN [rpf |-> rpf, fds |-> <<>>]
  ELSE scanNestedFrom(rpf, RpfFile_findRpfFiles(rpf.allEntries, rpf.root), 1)

\* the match of findEntry made on name instead of nameLower
firstNamed_caseSensitive(es, list, lowerPart) ==
  LET hits == {k \in 1..Len(list) : es[list[k]].name = lowerPart}
  IN IF hits = {} THEN 0 ELSE list[CHOOSE k \in hits : \A j \in hits : k <= j]

\* the first member of list (indices into es) whose nameLower is lowerPart; 0 if none
firstNamed(es, list, lowerPart) ==
  LET hits == {k \in 1..Len(list) : es[list[k]].nameLower = lowerPart}
  IN IF hits = {} THEN 0 ELSE list[CHOOSE k \in hits : \A j \in hits : k <= j]

\* the loop of findEntry over the parts from the k-th on; current is an
\* index into allEntries, 0 for undefined
RECURSIVE findEntryFrom(_, _, _, _)
findEntryFrom(es, parts, k, current) ==
  IF k > Len(parts) THEN current
  ELSE IF current = 0 \/ ~isDirectory(es[current]) THEN 0
  ELSE LET lowerPart == toLowerCase(parts[k])
           dir  == firstNamed(es, es[current].directories, lowerPart)
           file == firstNamed(es, es[current].files, lowerPart)
       IN findEntryFrom(es, parts, k + 1, IF dir # 0 THEN dir ELSE file)

\* RpfFile.findEntry: the index of the entry found, 0 for undefined
findEntry(rpf, entryPath) ==
  findEntryFrom(rpf.allEntries, splitPath(entryPath), 1, rpf.root)

\* getFileData with the close at the end of the try block instead of in a
\* finally: a throw of inflateSync leaves the descriptor open
getFileData_noFinally(entry, rpf, fd) ==
  LET compressed == entry.fileUncompressedSize > 0
                      /\ entry.fileUncompressedSize # entry.fileSize
      decrypt(buffer) ==
        IF entry.isEncrypted
        THEN IF rpf.isAESEncrypted THEN decryptAES(buffer)
             ELSE IF rpf.isNGEncrypted
                  THEN decryptNG(buffer, entry.name, entry.fileUncompressedSize)
                  ELSE buffer
        ELSE buffer
      inflate(bytesRead, inflated) ==
        IF ~inflated.ok
        THEN [ok |-> FALSE, err |-> "InflateFailed", data |-> <<>>,
              bytesRead |-> bytesRead, fds |-> <<fdOpen(fd)>>]
        ELSE [ok |-> TRUE, err |-> "", data |-> inflated.data,
              bytesRead |-> bytesRead, fds |-> <<fdOpen(fd), fdClose(fd)>>]
      result(bytesRead, decrypted) ==
        IF compressed THEN inflate(bytesRead, inflateSync(decrypted))
        ELSE [ok |-> TRUE, err |-> "", data |-> decrypted,
              bytesRead |-> bytesRead, fds |-> <<fdOpen(fd), fdClose(fd)>>]
      read(rd) == result(rd.bytesRead, decrypt(rd.buffer))
      open(files) ==
        IF rpf.filePath \notin DOMAIN files
        THEN [ok |-> FALSE, err |-> "ENOENT", data |-> <<>>, bytesRead |-> 0, fds |-> <<>>]
        ELSE read(readSync(files[rpf.filePath], entry.fileSize,
                           rpf.startPos + entry.fileOffset * BLOCK))
  IN open(DiskFiles)

\* RpfFileEntry.getFileData(rpf) of entry; fd names the descriptor it opens.
\* bytesRead is what readSync returned, which the code does not look at.
getFileData(entry, rpf, fd) ==
  LET fds == <<fdOpen(fd), fdClose(fd)>>
      compressed == entry.fileUncompressedSize > 0
                      /\ entry.fileUncompressedSize # entry.fileSize
      decrypt(buffer) ==
        IF entry.isEncrypted
        THEN IF rpf.isAESEncrypted THEN decryptAES(buffer)
             ELSE IF rpf.isNGEncrypted
                  THEN decryptNG(buffer, entry.name, entry.fileUncompressedSize)
                  ELSE buffer
        ELSE buffer
      inflate(bytesRead, inflated) ==
        IF ~inflated.ok
        THEN [ok |-> FALSE, err |-> "InflateFailed", data |-> <<>>,
              bytesRead |-> bytesRead, fds |-> fds]
        ELSE [ok |-> TRUE, err |-> "", data |-> inflated.data,
              bytesRead |-> bytesRead, fds |-> fds]
      result(bytesRead, decrypted) ==
        IF compressed THEN inflate(bytesRead, inflateSync(decrypted))
        ELSE [ok |-> TRUE, err |-> "", data |-> decrypted,
              bytesRead |-> bytesRead, fds |-> fds]
      read(rd) == result(rd.bytesRead, decrypt(rd.buffer))
      open(files) ==
        IF rpf.filePath \notin DOMAIN files
        THEN [ok |-> FALSE, err |-> "ENOENT", data |-> <<>>, bytesRead |-> 0, fds |-> <<>>]
        ELSE read(readSync(files[rpf.filePath], entry.fileSize,
                           rpf.startPos + entry.fileOffset * BLOCK))
  IN open(DiskFiles)

(***************************************************************************)
(* rpf-manager.ts: RpfManager.  The Map rpfFiles is the sequence of its    *)
(* [key, rpf] pairs in insertion order.                                    *)
(***************************************************************************)
mapHas(m, key) == \E i \in 1..Len(m) : m[i].key = key

mapGet(m, key) == m[CHOOSE i \in 1..Len(m) : m[i].key = key].rpf

\* Map.prototype.set: a present key keeps its place and takes the new value
mapSet(m, key, rpf) ==
  IF mapHas(m, key)
  THEN [i \in 1..Len(m) |-> IF m[i].key = key THEN [key |-> key, rpf |-> rpf] ELSE m[i]]
  ELSE Append(m, [key |-> key, rpf |-> rpf])

mapKeys(m) == {m[i].key : i \in 1..Len(m)}

\* the segments of an absolute path
pathSegments(p) == SelectSeq(splitPath(p), LAMBDA x : x # <<>>)

RECURSIVE commonPrefixLen(_, _)
commonPrefixLen(a, b) ==
  IF a = <<>> \/ b = <<>> \/ a[1] # b[1] THEN 0
  ELSE 1 + commonPrefixLen(Tail(a), Tail(b))

\* path.relative(from, to) of absolute normalized paths
pathRelative(from, to) ==
  LET a == pathSegments(from)
      b == pathSegments(to)
      c == commonPrefixLen(a, b)
  IN joinWith([i \in 1..(Len(a) - c) |-> S_dotdot] \o SubSeq(b, c + 1, Len(b)), CH_SLASH)

\* path.basename
pathBasename(p) == LET segs == pathSegments(p) IN segs[Len(segs)]

\* path.resolve of an absolute normalized path
pathResolve(p) == joinWith(<<<<>>>> \o pathSegments(p), CH_SLASH)

\* RpfManager.findRpfFiles: readdirSync throws on what is no directory, and
\* the catch returns what was collected, which is nothing
RECURSIVE RpfManager_findRpfFiles(_)
RECURSIVE findRpfFilesFrom(_, _, _)
RpfManager_findRpfFiles(dirPath) ==
  IF dirPath \notin DOMAIN DiskDirs THEN <<>>
  ELSE findRpfFilesFrom(dirPath, DiskDirs[dirPath], 1)

findRpfFilesFrom(dirPath, entries, k) ==
  IF k > Len(entries) THEN <<>>
  ELSE LET entry == entries[k]
           fullPath == pathJoin(dirPath, entry.name)
           here == IF entry.isDirectory
                   THEN IF ~startsWith(entry.name, <<CH_DOT>>) /\ entry.name # S_node_modules
                        THEN RpfManager_findRpfFiles(fullPath)
                        ELSE <<>>
                   ELSE IF endsWith(toLowerCase(entry.name), S_rpf)
                        THEN <<fullPath>>
                        ELSE <<>>
       IN here \o findRpfFilesFrom(dirPath, entries, k + 1)

\* RpfManager.addNestedRpfs
RECURSIVE addNestedRpfs(_, _, _)
RECURSIVE addNestedFrom(_, _, _, _)
addNestedRpfs(m, rpfFile, basePath) == addNestedFrom(m, rpfFile.children, basePath, 1)

addNestedFrom(m, children, basePath, k) ==
  IF k > Len(children) THEN m
  ELSE LET child == children[k]
           nestedPath == basePath \o <<CH_SLASH>> \o child.fileName
           m1 == mapSet(m, nestedPath, child)
           m2 == IF Len(child.children) > 0 THEN addNestedRpfs(m1, child, nestedPath) ELSE m1
       IN addNestedFrom(m2, children, basePath, k + 1)

\* one turn of the loop of scanForRpfFiles: the archive at rpfPath is opened
\* and, if that did not throw, registered with its nested archives
scanOne(m, rootPath, rpfPath, id) ==
  LET registered(s, relativePath) ==
        [ rpfFiles |-> IF s.ok
                       THEN addNestedRpfs(mapSet(m, relativePath, s.rpf), s.rpf, relativePath)
                       ELSE m,
          ok |-> s.ok, err |-> s.err, fds |-> s.fds ]
  IN registered(scanStructure(newRpfFile(id, rpfPath, pathBasename(rpfPath), 0, NoId)),
                replaceBackslashes(pathRelative(rootPath, rpfPath)))

\* RpfManager.getRpfList
getRpfList(m) == sortStrings(mapKeys(m))

\* a directoryPath that means the root: !directoryPath || === "/" || === ""
isRootPath(directoryPath) == directoryPath = <<>> \/ directoryPath = <<CH_SLASH>>

\* the directory listDirectory and getDirectoryTree start from: an index
\* into allEntries, 0 for the null result
targetDirOf(m, rpfPath, directoryPath) ==
  LET found(rpf, entry) ==
        IF entry = 0 \/ ~isDirectory(rpf.allEntries[entry]) THEN 0 ELSE entry
      in(rpf) == IF rpf.root = 0 THEN 0
                 ELSE IF isRootPath(directoryPath) THEN rpf.root
                 ELSE found(rpf, findEntry(rpf, directoryPath))
  IN IF ~mapHas(m, rpfPath) THEN 0 ELSE in(mapGet(m, rpfPath))

\* RpfManager.listDirectory
listDirectory(m, rpfPath, directoryPath) ==
  LET names(es, list) == [k \in 1..Len(list) |-> es[list[k]].name]
      contents(es, t) ==
        IF t = 0 THEN [isNull |-> TRUE, directories |-> <<>>, files |-> <<>>]
        ELSE [ isNull |-> FALSE,
               directories |-> names(es, es[t].directories),
               files |-> names(es, es[t].files) ]
  IN IF ~mapHas(m, rpfPath) THEN contents(<<>>, 0)
     ELSE contents(mapGet(m, rpfPath).allEntries, targetDirOf(m, rpfPath, directoryPath))

\* RpfManager.getFileContent: null for an unknown archive, for a path that
\* is no file entry, and for a read that throws
getFileContent(m, rpfPath, filePath, fd) ==
  LET null == [isNull |-> TRUE, data |-> <<>>, bytesRead |-> 0, fds |-> <<>>]
      caught(r) == [isNull |-> ~r.ok, data |-> r.data, bytesRead |-> r.bytesRead, fds |-> r.fds]
      found(rpf, entry) ==
        IF entry = 0 \/ ~isFileEntry(rpf.allEntries[entry]) THEN null
        ELSE caught(getFileData(rpf.allEntries[entry], rpf, fd))
      in(rpf) == found(rpf, findEntry(rpf, filePath))
  IN IF ~mapHas(m, rpfPath) THEN null ELSE in(mapGet(m, rpfPath))

\* RpfManager.getFileInfo
getFileInfo(m, rpfPath, filePath) ==
  LET null == [isNull |-> TRUE, entry |-> 0, name |-> <<>>, path |-> <<>>, type |-> "",
               size |-> 0, compressedSize |-> 0, encrypted |-> FALSE]
      info(entry, e) ==
        [ isNull |-> FALSE, entry |-> entry, name |-> e.name, path |-> e.path,
          type |-> IF isDirectory(e) THEN "directory" ELSE "file",
          size |-> IF isDirectory(e) THEN 0 ELSE e.fileSize,
          compressedSize |-> IF isDirectory(e) THEN 0 ELSE e.fileUncompressedSize,
          encrypted |-> IF isDirectory(e) THEN FALSE ELSE e.isEncrypted ]
      found(rpf, entry) == IF entry = 0 THEN null ELSE info(entry, rpf.allEntries[entry])
      in(rpf) == found(rpf, findEntry(rpf, filePath))
  IN IF ~mapHas(m, rpfPath) THEN null ELSE in(mapGet(m, rpfPath))

\* RegExp.test of '^' + pattern.replace(/\*/g, '.*') + '$' on name, for
\* patterns of letters, digits, '_', '.' and '*': in the regular expression
\* a '.' of the pattern stands for any one character
RECURSIVE regexTest(_, _)
regexTest(pattern, name) ==
  IF pattern = <<>> THEN name = <<>>
  ELSE IF pattern[1] = CH_STAR
       THEN regexTest(Tail(pattern), name)
              \/ (name # <<>> /\ regexTest(pattern, Tail(name)))
  ELSE IF pattern[1] = CH_DOT
       THEN name # <<>> /\ regexTest(Tail(pattern), Tail(name))
  ELSE name # <<>> /\ name[1] = pattern[1] /\ regexTest(Tail(pattern), Tail(name))

\* RpfManager.matchesPattern
matchesPattern(name, pattern) ==
  IF includes(pattern, <<CH_STAR>>) THEN regexTest(pattern, name)
  ELSE includes(name, pattern)

\* RpfManager.searchInDirectory: the matching files of dir, then each
\* sub-directory (itself, if it matches, then what is below it)
RECURSIVE searchInDirectory(_, _, _, _)
RECURSIVE searchInSubdirs(_, _, _, _, _)
searchInDirectory(rpf, dir, rpfPath, pattern) ==
  LET es == rpf.allEntries
      hit(i) == [rpfPath |-> rpfPath, entryPath |-> es[i].path, entry |-> i, rpfFile |-> rpf.id]
      files == SelectSeq(es[dir].files, LAMBDA i : matchesPattern(es[i].nameLower, pattern))
  IN [k \in 1..Len(files) |-> hit(files[k])]
       \o searchInSubdirs(rpf, es[dir].directories, 1, rpfPath, pattern)

searchInSubdirs(rpf, dirs, k, rpfPath, pattern) ==
  IF k > Len(dirs) THEN <<>>
  ELSE LET es == rpf.allEntries
           subdir == dirs[k]
           own == IF matchesPattern(es[subdir].nameLower, pattern)
                  THEN <<[rpfPath |-> rpfPath, entryPath |-> es[subdir].path,
                          entry |-> subdir, rpfFile |-> rpf.id]>>
                  ELSE <<>>
       IN own \o searchInDirectory(rpf, subdir, rpfPath, pattern)
              \o searchInSubdirs(rpf, dirs, k + 1, rpfPath, pattern)

\* RpfManager.searchFiles: the archives of the registry in insertion order
RECURSIVE searchFilesFrom(_, _, _)
searchFilesFrom(m, k, searchPattern) ==
  IF k > Len(m) THEN <<>>
  ELSE (IF m[k].rpf.root = 0 THEN <<>>
        ELSE searchInDirectory(m[k].rpf, m[k].rpf.root, m[k].key, searchPattern))
       \o searchFilesFrom(m, k + 1, searchPattern)

searchFiles(m, pattern) == searchFilesFrom(m, 1, toLowerCase(pattern))

\* RpfManager.buildTree
\* buildTree without the test of depth against maxDepth
RECURSIVE buildTree_noLimit(_, _, _, _)
buildTree_noLimit(es, dir, depth, maxDepth) ==
  [ name |-> IF es[dir].name # <<>> THEN es[dir].name ELSE <<CH_SLASH>>,
    type |-> "directory",
    children |->
      [k \in 1..Len(es[dir].directories) |->
         buildTree_noLimit(es, es[dir].directories[k], depth + 1, maxDepth)]
      \o [k \in 1..Len(es[dir].files) |->
            LET file == es[es[dir].files[k]]
            IN [name |-> file.name, type |-> "file", size |-> file.fileSize,
                encrypted |-> file.isEncrypted]] ]

RECURSIVE buildTree(_, _, _, _)
buildTree(es, dir, depth, maxDepth) ==
  LET name == IF es[dir].name # <<>> THEN es[dir].name ELSE <<CH_SLASH>>
  IN IF depth >= maxDepth
     THEN [name |-> name, type |-> "directory", children |-> <<>>]
     ELSE [ name |-> name, type |-> "directory",
            children |->
              [k \in 1..Len(es[dir].directories) |->
                 buildTree(es, es[dir].directories[k], depth + 1, maxDepth)]
              \o [k \in 1..Len(es[dir].files) |->
                    LET file == es[es[dir].files[k]]
                    IN [name |-> file.name, type |-> "file", size |-> file.fileSize,
                        encrypted |-> file.isEncrypted]] ]

\* RpfManager.getDirectoryTree
getDirectoryTree(m, rpfPath, directoryPath, maxDepth) ==
  LET from(t) ==
        IF t = 0 THEN [isNull |-> TRUE, tree |-> <<>>]
        ELSE [isNull |-> FALSE,
              tree |-> buildTree(mapGet(m, rpfPath).allEntries, t, 0, maxDepth)]
  IN from(targetDirOf(m, rpfPath, directoryPath))

(***************************************************************************)
(* index.ts: the server.  The state is the RpfManager's fields, the        *)
(* 'initialize' calls that have started and not yet returned, the          *)
(* descriptors open in the process, the last response sent and the last    *)
(* file written by extract_file.                                           *)
(***************************************************************************)
VARIABLES rootPath, rpfFiles, initialized, inits, initCalls,
          response, openFds, fdLog, badClose, written

vars == <<rootPath, rpfFiles, initialized, inits, initCalls,
          response, openFds, fdLog, badClose, written>>

\* process.env.GTA_V_PATH || args[0]
gtaPath == P_g

\* a manager that takes itself for initialized once init has stored the root
isInitialized_rootSet == rootPath # <<>>

\* RpfManager.isInitialized
isInitialized == initialized

\* a response: the request it answers (tool, args), isError and the error of
\* the catch, and payload, the values the text of its content is made from
NoResponse == [tool |-> "", args |-> <<>>, isError |-> FALSE, error |-> "", payload |-> <<>>]

\* the catch of the handler: { content: "Error: ...", isError: true }
errorResult(tool, args, error) ==
  [tool |-> tool, args |-> args, isError |-> TRUE, error |-> error, payload |-> <<>>]

\* return { content: [{ type: "text", text: ... }] }
okResult(tool, args, data) ==
  [tool |-> tool, args |-> args, isError |-> FALSE, error |-> "", payload |-> data]

\* the descriptors left open, and whether one was closed that was not open,
\* after the opens and closes of log
RECURSIVE applyFds(_, _, _)
applyFds(open, bad, log) ==
  IF log = <<>> THEN [open |-> open, bad |-> bad]
  ELSE IF log[1].op = "open"
       THEN applyFds(open \cup {log[1].fd}, bad \/ log[1].fd \in open, Tail(log))
       ELSE applyFds(open \ {log[1].fd}, bad \/ log[1].fd \notin open, Tail(log))

noFds == /\ fdLog' = <<>>
         /\ UNCHANGED <<openFds, badClose>>

withFds(log) ==
  LET applied(a) == /\ openFds' = a.open
                    /\ badClose' = a.bad
  IN /\ fdLog' = log
     /\ applied(applyFds(openFds, badClose, log))

Init ==
  /\ rootPath = <<>>
  /\ rpfFiles = <<>>
  /\ initialized = FALSE
  /\ inits = {}
  /\ initCalls = 0
  /\ response = NoResponse
  /\ openFds = {}
  /\ fdLog = <<>>
  /\ badClose = FALSE
  /\ written = <<>>

\* RpfManager.init up to its first await: the root is checked and stored
\* and the '.rpf' files under it are collected
\* init that stores the root before it tests that the root exists
initBegin_rootFirst(path) ==
  /\ initCalls < MaxInitCalls
  /\ initCalls' = initCalls + 1
  /\ LET initPath == IF path # <<>> THEN path ELSE gtaPath
     IN IF ~existsSync(initPath)
        THEN /\ response' = errorResult("initialize", <<path>>, "RootPathDoesNotExist")
             /\ rootPath' = pathResolve(initPath)
             /\ UNCHANGED inits
        ELSE /\ rootPath' = pathResolve(initPath)
             /\ inits' = inits \cup {[ serial |-> initCalls + 1, path |-> path,
                                       initPath |-> initPath,
                                       rpfPaths |-> RpfManager_findRpfFiles(pathResolve(initPath)),
                                       next |-> 1 ]}
             /\ UNCHANGED response
  /\ noFds
  /\ UNCHANGED <<rpfFiles, initialized, written>>

initBegin(path) ==
  /\ initCalls < MaxInitCalls
  /\ initCalls' = initCalls + 1
  /\ LET initPath == IF path # <<>> THEN path ELSE gtaPath
     IN IF ~existsSync(initPath)
        THEN /\ response' = errorResult("initialize", <<path>>, "RootPathDoesNotExist")
             /\ UNCHANGED <<rootPath, inits>>
        ELSE /\ rootPath' = pathResolve(initPath)
             /\ inits' = inits \cup {[ serial |-> initCalls + 1, path |-> path,
                                       initPath |-> initPath,
                                       rpfPaths |-> RpfManager_findRpfFiles(pathResolve(initPath)),
                                       next |-> 1 ]}
             /\ UNCHANGED response
  /\ noFds
  /\ UNCHANGED <<rpfFiles, initialized, written>>

\* one turn of the loop of scanForRpfFiles of a call in flight
initScan(call) ==
  /\ call \in inits
  /\ call.next <= Len(call.rpfPaths)
  /\ LET scanned(r) == /\ rpfFiles' = r.rpfFiles
                       /\ withFds(r.fds)
     IN scanned(scanOne(rpfFiles, rootPath, call.rpfPaths[call.next],
                        <<call.serial, call.next>>))
  /\ inits' = (inits \ {call}) \cup {[call EXCEPT !.next = @ + 1]}
  /\ UNCHANGED <<rootPath, initialized, initCalls, response, written>>

\* the end of init and of the 'initialize' case: the manager is initialized
\* and the count of archives is reported
initEnd(call) ==
  /\ call \in inits
  /\ call.next > Len(call.rpfPaths)
  /\ initialized' = TRUE
  /\ inits' = inits \ {call}
  /\ response' = okResult("initialize", <<call.path>>,
                          [initPath |-> call.initPath, rpfCount |-> Len(getRpfList(rpfFiles))])
  /\ noFds
  /\ UNCHANGED <<rootPath, rpfFiles, initCalls, written>>

\* what every case but 'initialize' begins with
notInitialized(tool, args) ==
  /\ ~isInitialized
  /\ response' = errorResult(tool, args, "NotInitialized")
  /\ noFds
  /\ UNCHANGED written

\* a tool other than 'initialize' leaves the manager's fields as they are
toolCall == UNCHANGED <<rootPath, rpfFiles, initialized, inits, initCalls>>

\* case "list_rpf_files"; an absent or empty pattern filters nothing
list_rpf_files(pattern) ==
  /\ toolCall
  /\ \/ notInitialized("list_rpf_files", <<pattern>>)
     \/ /\ isInitialized
        /\ LET rpfList == getRpfList(rpfFiles)
               shown == IF pattern # <<>>
                        THEN SelectSeq(rpfList,
                               LAMBDA rpf : includes(toLowerCase(rpf), toLowerCase(pattern)))
                        ELSE rpfList
           IN response' = okResult("list_rpf_files", <<pattern>>, shown)
        /\ noFds
        /\ UNCHANGED written

\* case "list_directory"
list_directory(rpfPath, directoryPath) ==
  /\ toolCall
  /\ \/ notInitialized("list_directory", <<rpfPath, directoryPath>>)
     \/ /\ isInitialized
        /\ LET result(contents) ==
                 IF contents.isNull
                 THEN errorResult("list_directory", <<rpfPath, directoryPath>>,
                                  "DirectoryNotFound")
                 ELSE okResult("list_directory", <<rpfPath, directoryPath>>,
                               [directories |-> contents.directories,
                                files |-> contents.files])
           IN response' = result(listDirectory(rpfFiles, rpfPath, directoryPath))
        /\ noFds
        /\ UNCHANGED written

\* the extension test of read_file: filePath.split('.').pop().toLowerCase()
textExtensions ==
  { <<116, 120, 116>>, <<120, 109, 108>>, <<109, 101, 116, 97>>, <<100, 97, 116>>, <<103, 120, 116, 50>>, <<99, 102, 103>>, <<105, 110, 105>>, <<121, 109, 116>>, <<121, 116, 121, 112>>, <<121, 109, 102>> }

RECURSIVE lastDot(_, _)
lastDot(s, i) == IF i = 0 THEN 0 ELSE IF s[i] = CH_DOT THEN i ELSE lastDot(s, i - 1)

fileExt(filePath) == toLowerCase(SubSeq(filePath, lastDot(filePath, Len(filePath)) + 1, Len(filePath)))

\* case "read_file"
read_file(rpfPath, filePath) ==
  /\ toolCall
  /\ \/ notInitialized("read_file", <<rpfPath, filePath>>)
     \/ /\ isInitialized
        /\ LET result(content) ==
                 /\ response' =
                      IF content.isNull
                      THEN errorResult("read_file", <<rpfPath, filePath>>, "FileNotFound")
                      ELSE okResult("read_file", <<rpfPath, filePath>>,
                                    [content |-> content.data,
                                     asText |-> fileExt(filePath) \in textExtensions])
                 /\ withFds(content.fds)
           IN result(getFileContent(rpfFiles, rpfPath, filePath, readFd))
        /\ UNCHANGED written

\* case "get_file_info"
get_file_info(rpfPath, filePath) ==
  /\ toolCall
  /\ \/ notInitialized("get_file_info", <<rpfPath, filePath>>)
     \/ /\ isInitialized
        /\ LET result(info) ==
                 IF info.isNull
                 THEN errorResult("get_file_info", <<rpfPath, filePath>>, "EntryNotFound")
                 ELSE okResult("get_file_info", <<rpfPath, filePath>>, info)
           IN response' = result(getFileInfo(rpfFiles, rpfPath, filePath))
        /\ noFds
        /\ UNCHANGED written

\* case "search_files"
search_files(pattern) ==
  /\ toolCall
  /\ \/ notInitialized("search_files", <<pattern>>)
     \/ /\ isInitialized
        /\ response' = okResult("search_files", <<pattern>>, searchFiles(rpfFiles, pattern))
        /\ noFds
        /\ UNCHANGED written

\* case "get_directory_tree"
get_directory_tree(rpfPath, directoryPath, maxDepth) ==
  /\ toolCall
  /\ \/ notInitialized("get_directory_tree", <<rpfPath, directoryPath>>)
     \/ /\ isInitialized
        /\ LET result(t) ==
                 IF t.isNull
                 THEN errorResult("get_directory_tree", <<rpfPath, directoryPath>>,
                                  "DirectoryNotFound")
                 ELSE okResult("get_directory_tree", <<rpfPath, directoryPath>>,
                               [maxDepth |-> maxDepth, tree |-> t.tree])
           IN response' = result(getDirectoryTree(rpfFiles, rpfPath, directoryPath, maxDepth))
        /\ noFds
        /\ UNCHANGED written

\* case "extract_file": the content is written to outputPath
extract_file(rpfPath, filePath, outputPath) ==
  /\ toolCall
  /\ \/ notInitialized("extract_file", <<rpfPath, filePath>>)
     \/ /\ isInitialized
        /\ LET result(content) ==
                 /\ response' =
                      IF content.isNull
                      THEN errorResult("extract_file", <<rpfPath, filePath>>, "FileNotFound")
                      ELSE okResult("extract_file", <<rpfPath, filePath>>,
                                    [outputPath |-> outputPath, length |-> Len(content.data)])
                 /\ written' = IF content.isNull THEN written
                               ELSE <<[outputPath |-> outputPath, data |-> content.data]>>
                 /\ withFds(content.fds)
           IN result(getFileContent(rpfFiles, rpfPath, filePath, readFd))

\* default: an unknown tool name
unknown_tool ==
  /\ toolCall
  /\ response' = errorResult("unknown", <<>>, "UnknownTool")
  /\ noFds
  /\ UNCHANGED written

(***************************************************************************)
(* The server started on gtaPath: the requests a client may send.          *)
(***************************************************************************)
SrvInitPaths == { <<>>, P_h, P_nope }

SrvRpfPaths == { N_flat, N_e1 }

\* an archive and a file of it
SrvFiles == { <<N_flat, <<97, 46, 116, 120, 116>>>>, <<N_e1, <<104, 105>>>> }

SrvPatterns == { <<>>, <<70, 76, 65, 84>> }

P_out == <<47, 111, 117, 116, 47, 120>>

Next ==
  \/ \E path \in SrvInitPaths : initBegin(path)
  \/ \E call \in inits : initScan(call)
  \/ \E call \in inits : initEnd(call)
  \/ \E pattern \in SrvPatterns : list_rpf_files(pattern)
  \/ \E rpfPath \in SrvRpfPaths : list_directory(rpfPath, <<>>)
  \/ \E f \in SrvFiles : read_file(f[1], f[2])
  \/ \E f \in SrvFiles : get_file_info(f[1], f[2])
  \/ \E pattern \in SrvPatterns : search_files(pattern)
  \/ \E rpfPath \in SrvRpfPaths : get_directory_tree(rpfPath, <<>>, DEFAULT_MAX_DEPTH)
  \/ \E f \in SrvFiles : extract_file(f[1], f[2], P_out)
  \/ unknown_tool

Spec == Init /\ [][Next]_vars

(***************************************************************************)
(* The server asked to browse /c, whose archives are a corrupted E1, an    *)
(* archive in NG mode and an archive of resource records.                  *)
(***************************************************************************)
DecRpfPaths == { N_v8, N_e1x, N_ng, N_res }

\* an archive and a file of it
DecFiles == { <<N_e1x, <<104, 105>>>>, <<N_ng, <<97, 46, 116, 120, 116>>>>,
              <<N_res, <<114, 46, 121, 100, 114>>>> }

DecPatterns == { <<>>, <<78, 71>>, <<42, 46, 121, 100, 114>> }

DecNext ==
  \/ initBegin(P_c)
  \/ \E call \in inits : initScan(call)
  \/ \E call \in inits : initEnd(call)
  \/ \E pattern \in DecPatterns : list_rpf_files(pattern)
  \/ \E rpfPath \in DecRpfPaths : list_directory(rpfPath, <<>>)
  \/ \E f \in DecFiles : read_file(f[1], f[2])
  \/ \E f \in DecFiles : get_file_info(f[1], f[2])
  \/ \E pattern \in DecPatterns : search_files(pattern)

SpecDec == Init /\ [][DecNext]_vars

(***************************************************************************)
(* GTACrypto.decryptAES and GTACrypto.encryptAES called on their own.  The *)
(* buffers are of every length from 0 to AesMaxLen; the first block and    *)
(* the rest of a buffer are each zero or a ramp, so that buffers share a   *)
(* block and differ in another.  A call is also made on what the other     *)
(* function returned.  The response holds the call: args is the buffer     *)
(* passed, as it is after the call, and payload the buffer returned.       *)
(***************************************************************************)
AesMaxLen == 34

AesSeeds == {0, 77}

aesBuffer(len, s1, s2) ==
  [i \in 1..len |-> IF i <= 16 THEN (s1 * i) % 256 ELSE (s2 * i + s2) % 256]

AesBuffers ==
  { aesBuffer(len, s1, s2) : len \in 0..AesMaxLen, s1 \in AesSeeds, s2 \in AesSeeds }

AesArgs ==
  AesBuffers \cup { encryptAES(b) : b \in AesBuffers } \cup { decryptAES(b) : b \in AesBuffers }

callDecryptAES(data) ==
  /\ response' = okResult("decryptAES", data, decryptAES(data))
  /\ UNCHANGED <<rootPath, rpfFiles, initialized, inits, initCalls,
                 openFds, fdLog, badClose, written>>

callEncryptAES(data) ==
  /\ response' = okResult("encryptAES", data, encryptAES(data))
  /\ UNCHANGED <<rootPath, rpfFiles, initialized, inits, initCalls,
                 openFds, fdLog, badClose, written>>

AesNext ==
  \/ \E data \in AesArgs : callDecryptAES(data)
  \/ \E data \in AesArgs : callEncryptAES(data)

SpecAes == Init /\ [][AesNext]_vars

(***************************************************************************)
(* RpfFile and RpfManager below the decoder.  No table that parseEntries   *)
(* decodes has a root, so the code that works on a directory hierarchy     *)
(* (buildHierarchy, scanNestedRpfs, addNestedRpfs, findEntry, getFileData  *)
(* through the manager) is run here on entry tables that are given         *)
(* decoded: a directory entry by its fields, a file entry by               *)
(* RpfBinaryFileEntry.read of its record.  From the decoded table on,      *)
(* everything is the code's: the hierarchy, the scan of the nested         *)
(* archives in pack.rpf (each opened by scanStructure) and the registry.   *)
(***************************************************************************)
parsedDir(name, entriesIndex, entriesCount) ==
  [newEntry("dir") EXCEPT !.name = name, !.nameLower = toLowerCase(name),
                          !.entriesIndex = entriesIndex, !.entriesCount = entriesCount]

parsedBin(name, fileSize, fileOffset, uncompressedSize, encryptionType) ==
  [readBinaryFileEntry(binRecord(0, fileSize, fileOffset, uncompressedSize, encryptionType), 0).e
     EXCEPT !.name = name, !.nameLower = toLowerCase(name)]

K_pack == N_pack
K_pack_in == <<112, 97, 99, 107, 46, 114, 112, 102, 47, 105, 110, 46, 114, 112, 102>>
K_deep == <<112, 97, 99, 107, 46, 114, 112, 102, 47, 100, 101, 101, 112, 46, 114, 112, 102>>

\* the table of pack.rpf: the root over entries [1,7), "x" over [7,10),
\* "Data" over [10,13)
LibPack ==
  [ key |-> K_pack, id |-> <<-1>>, filePath |-> pathJoin(P_p, N_pack), fileName |-> N_pack,
    startPos |-> 0, parent |-> NoId, encryption |-> ENC_NONE,
    entries |-> << parsedDir(<<>>, 1, 6),
                   parsedDir(<<120>>, 7, 3),
                   parsedDir(<<68, 97, 116, 97>>, 10, 3),
                   parsedBin(<<100, 97, 116, 97>>, 1, 5, 0, 0),
                   parsedBin(<<105, 110, 46, 114, 112, 102>>, 64, 1, 0, 0),
                   parsedBin(<<72, 105, 46, 84, 88, 84>>, 5, 5, 0, 0),
                   parsedBin(<<106, 117, 110, 107, 46, 122>>, 2, 5, 9, 0),
                   parsedBin(<<105, 110, 46, 114, 112, 102>>, 16, 2, 0, 0),
                   parsedBin(<<122, 46, 98, 105, 110>>, 3, 6, 7, 0),
                   parsedBin(<<111, 107, 46, 98, 105, 110>>, 3, 8, 2, 0),
                   parsedBin(<<116, 97, 105, 108, 46, 100, 97, 116>>, 8, 9, 0, 0),
                   parsedBin(<<98, 97, 100, 46, 114, 112, 102>>, 16, 10, 0, 0),
                   parsedBin(<<101, 49, 46, 114, 112, 102>>, 64, 7, 0, 0) >> ]

\* the table of an archive nested in pack.rpf at block 2: the root over
\* entries [1,3)
LibDeep ==
  [ key |-> K_deep, id |-> <<-2>>, filePath |-> pathJoin(P_p, N_pack),
    fileName |-> <<100, 101, 101, 112, 46, 114, 112, 102>>, startPos |-> 2 * BLOCK, parent |-> <<-1>>,
    encryption |-> ENC_NONE,
    entries |-> << parsedDir(<<>>, 1, 2),
                   parsedBin(<<99, 46, 114, 112, 102>>, 64, 1, 0, 0),
                   parsedBin(<<102, 46, 116, 120, 116>>, 3, 2, 0, 0) >> ]

K_loop == <<112, 97, 99, 107, 46, 114, 112, 102, 47, 108, 111, 111, 112, 46, 114, 112, 102>>

\* the table of an archive nested in pack.rpf at block 3 whose root has the
\* range [0,2): the root lists itself and "f.txt"
LibLoop ==
  [ key |-> K_loop, id |-> <<-3>>, filePath |-> pathJoin(P_p, N_pack),
    fileName |-> <<108, 111, 111, 112, 46, 114, 112, 102>>, startPos |-> 3 * BLOCK, parent |-> <<-1>>,
    encryption |-> ENC_NONE,
    entries |-> << parsedDir(<<>>, 0, 2),
                   parsedBin(<<102, 46, 116, 120, 116>>, 3, 2, 0, 0) >> ]

\* the table of mix.rpf, a file of the content of pack.rpf: the root over
\* "a.rpf" (block 10, past the end of the file), "e1.rpf" (block 7, the E1
\* image) and "b.rpf" (block 1, the archive of "a.txt")
LibMix ==
  [ key |-> K_mix, id |-> <<-4>>, filePath |-> pathJoin(P_p, K_mix), fileName |-> K_mix,
    startPos |-> 0, parent |-> NoId, encryption |-> ENC_NONE,
    entries |-> << parsedDir(<<>>, 1, 3),
                   parsedBin(<<97, 46, 114, 112, 102>>, 16, 10, 0, 0),
                   parsedBin(<<101, 49, 46, 114, 112, 102>>, 64, 7, 0, 0),
                   parsedBin(<<98, 46, 114, 112, 102>>, 64, 1, 0, 0) >> ]

LibArchives == { LibPack, LibDeep, LibLoop }

\* scanStructure from the decoded table on: buildHierarchy, then
\* scanNestedRpfs, inside the try whose finally closes the descriptor
openParsed(a) ==
  LET fds(inner) == <<fdOpen(a.id)>> \o inner \o <<fdClose(a.id)>>
      scanned(nested) == [ok |-> TRUE, err |-> "", rpf |-> nested.rpf, fds |-> fds(nested.fds)]
      nest(built) == IF ~built.ok
                     THEN [ok |-> FALSE, err |-> built.err, rpf |-> built.rpf, fds |-> fds(<<>>)]
                     ELSE scanned(scanNestedRpfs(built.rpf))
  IN nest(buildHierarchy(
            [newRpfFile(a.id, a.filePath, a.fileName, a.startPos, a.parent)
               EXCEPT !.version = RPF_VERSION,
                      !.encryption = a.encryption,
                      !.isAESEncrypted = (a.encryption = ENC_AES),
                      !.isNGEncrypted = (a.encryption = ENC_NG),
                      !.entryCount = Len(a.entries),
                      !.allEntries = [i \in DOMAIN a.entries |->
                                        [a.entries[i] EXCEPT !.file = a.id]]]))

\* an init of the root in which the archive of table a is found: the
\* registration of scanForRpfFiles, and the response of 'initialize'
loadParsed(a) ==
  /\ ~mapHas(rpfFiles, a.key)
  /\ LET loaded(m, fds) ==
           /\ rpfFiles' = m
           /\ response' = okResult("initialize", <<rootPath>>,
                                   [initPath |-> rootPath, rpfCount |-> Len(getRpfList(m))])
           /\ withFds(fds)
         registered(s) ==
           loaded(IF s.ok
                  THEN addNestedRpfs(mapSet(rpfFiles, a.key, s.rpf), s.rpf, a.key)
                  ELSE rpfFiles,
                  s.fds)
     IN registered(openParsed(a))
  /\ UNCHANGED <<rootPath, initialized, inits, initCalls, written>>

\* the manager after 'initialize' on /p, where pack.rpf did not open
LibInit ==
  /\ rootPath = P_p
  /\ rpfFiles = <<>>
  /\ initialized = TRUE
  /\ inits = {}
  /\ initCalls = 1
  /\ response = okResult("initialize", <<P_p>>, [initPath |-> P_p, rpfCount |-> 0])
  /\ openFds = {}
  /\ fdLog = <<>>
  /\ badClose = FALSE
  /\ written = <<>>

LibRpfPaths == { K_pack, K_pack_in, K_deep, <<110, 111, 110, 101, 46, 114, 112, 102>> }

LibFilePaths ==
  { <<72, 105, 46, 84, 88, 84>>, <<104, 105, 46, 116, 120, 116>>, <<100, 97, 116, 97>>, <<68, 97, 116, 97, 47, 116, 97, 105, 108, 46, 100, 97, 116>>, <<68, 65, 84, 65, 92, 84, 65, 73, 76, 46, 68, 65, 84>>, <<120, 47, 122, 46, 98, 105, 110>>,
    <<120, 92, 111, 107, 46, 98, 105, 110>>, <<106, 117, 110, 107, 46, 122>>, <<72, 105, 46, 84, 88, 84, 47, 97>>, <<110, 111, 112, 101>>, <<102, 46, 116, 120, 116>>, <<120>>, <<97, 46, 116, 120, 116>> }

LibReadPaths ==
  { <<72, 105, 46, 84, 88, 84>>, <<120, 47, 122, 46, 98, 105, 110>>, <<120, 92, 111, 107, 46, 98, 105, 110>>, <<106, 117, 110, 107, 46, 122>>, <<68, 97, 116, 97, 47, 116, 97, 105, 108, 46, 100, 97, 116>>, <<120>>, <<102, 46, 116, 120, 116>> }

\* an archive and a file of it
LibFiles == { <<K_pack, <<72, 105, 46, 84, 88, 84>>>>, <<K_pack, <<120, 47, 122, 46, 98, 105, 110>>>>, <<K_deep, <<102, 46, 116, 120, 116>>>>, <<K_pack_in, <<97, 46, 116, 120, 116>>>> }

LibDirPaths == { <<>>, <<120>>, <<68, 65, 84, 65>>, <<72, 105, 46, 84, 88, 84>>, <<110, 111, 112, 101>> }

LibPatterns == { <<>>, <<73, 78>>, <<42, 46, 114, 112, 102>>, <<116, 97>>, <<42, 105, 42>>, <<42, 46, 116, 97>> }

LibDepths == { 0, 1, DEFAULT_MAX_DEPTH }

LibNext ==
  \/ \E a \in LibArchives : loadParsed(a)
  \/ \E pattern \in LibPatterns : list_rpf_files(pattern)
  \/ \E rpfPath \in LibRpfPaths, directoryPath \in LibDirPaths :
       list_directory(rpfPath, directoryPath)
  \/ \E rpfPath \in LibRpfPaths, filePath \in LibReadPaths : read_file(rpfPath, filePath)
  \/ \E rpfPath \in LibRpfPaths, filePath \in LibFilePaths : get_file_info(rpfPath, filePath)
  \/ \E pattern \in LibPatterns : search_files(pattern)
  \/ \E rpfPath \in LibRpfPaths, directoryPath \in LibDirPaths, maxDepth \in LibDepths :
       get_directory_tree(rpfPath, directoryPath, maxDepth)
  \/ \E f \in LibFiles : extract_file(f[1], f[2], P_out)

SpecLib == LibInit /\ [][LibNext]_vars

(***************************************************************************)
(* The manager on /p with mix.rpf alone, below the decoder: its load, and  *)
(* requests on it, on the nested archives it names and on their files.     *)
(***************************************************************************)
NestNext ==
  \/ loadParsed(LibMix)
  \/ \E pattern \in LibPatterns : list_rpf_files(pattern)
  \/ \E rpfPath \in { K_mix, pathJoin(K_mix, <<97, 46, 114, 112, 102>>), pathJoin(K_mix, <<98, 46, 114, 112, 102>>) },
        filePath \in { <<97, 46, 114, 112, 102>>, <<101, 49, 46, 114, 112, 102>>, <<98, 46, 114, 112, 102>>, <<97, 46, 116, 120, 116>> } :
       \/ read_file(rpfPath, filePath)
       \/ get_file_info(rpfPath, filePath)
       \/ list_directory(rpfPath, <<>>)
  \/ \E pattern \in LibPatterns : search_files(pattern)
  \/ \E maxDepth \in LibDepths, directoryPath \in LibDirPaths :
       get_directory_tree(K_mix, directoryPath, maxDepth)
  \/ \E filePath \in LibFilePaths : get_file_info(K_mix, filePath)

SpecNest == LibInit /\ [][NestNext]_vars

(***************************************************************************)
(* Reads from archives of each encryption mode, below the decoder as in    *)
(* SpecLib.  The four archives on /e have one table: the root over the     *)
(* binary files "p0" (encryption type 0), "p1" (type 1), "p9" (type 255)   *)
(* and "pz" (type 2, uncompressed size equal to the size); they differ in  *)
(* the mode of the header.                                                 *)
(***************************************************************************)
EncModes == << <<N_aes, ENC_AES>>, <<N_ng, ENC_NG>>, <<N_open, ENC_OPEN>>, <<N_none, ENC_NONE>> >>

EncTable(k) ==
  [ key |-> EncModes[k][1], id |-> <<-k>>, filePath |-> pathJoin(P_e, EncModes[k][1]),
    fileName |-> EncModes[k][1], startPos |-> 0, parent |-> NoId,
    encryption |-> EncModes[k][2],
    entries |-> << parsedDir(<<>>, 1, 4),
                   parsedBin(<<112, 48>>, 34, 2, 0, 0),
                   parsedBin(<<112, 49>>, 34, 2, 0, 1),
                   parsedBin(N_p9, 34, 3, 0, 255),
                   parsedBin(N_pz, 34, 4, 34, 2) >> ]

EncArchives == { EncTable(k) : k \in DOMAIN EncModes }

EncRpfPaths == { EncModes[k][1] : k \in DOMAIN EncModes }

EncFilePaths == { <<112, 48>>, <<112, 49>>, N_p9, N_pz }

\* the manager after 'initialize' on /e, where no archive opened
EncInit ==
  /\ rootPath = P_e
  /\ rpfFiles = <<>>
  /\ initialized = TRUE
  /\ inits = {}
  /\ initCalls = 1
  /\ response = okResult("initialize", <<P_e>>, [initPath |-> P_e, rpfCount |-> 0])
  /\ openFds = {}
  /\ fdLog = <<>>
  /\ badClose = FALSE
  /\ written = <<>>

EncNext ==
  \/ \E a \in EncArchives : loadParsed(a)
  \/ \E rpfPath \in EncRpfPaths, filePath \in EncFilePaths : read_file(rpfPath, filePath)
  \/ \E rpfPath \in EncRpfPaths, filePath \in EncFilePaths : get_file_info(rpfPath, filePath)

SpecEnc == EncInit /\ [][EncNext]_vars

(***************************************************************************)
(* Properties.                                                             *)
(***************************************************************************)
\* C1: a tool other than 'initialize' that is handled while no init call
\* has completed successfully answers with an error and carries no data,
\* whatever was requested before it (a failed init, an init still running)
C1_ToolsRequireInit ==
  (~initialized /\ response.tool \notin {"", "initialize"})
    => (response.isError /\ response.payload = <<>>)

\* a tool was refused after an init call that failed, with none running
C1_RefusedAfterFailedInit ==
  /\ ~initialized
  /\ initCalls > 0
  /\ inits = {}
  /\ response.tool = "list_rpf_files"
  /\ response.error = "NotInitialized"

\* C2: the server initializes itself at startup, so that list_rpf_files sent
\* as the first request, before any 'initialize', succeeds
C2_InitializedAtStartup ==
  (initCalls = 0 /\ response.tool = "list_rpf_files") => ~response.isError

\* C3: once init has completed, the registry has a key for each '.rpf' file
\* under the root whose open succeeds and no key for one whose open fails
C3_RegistryMatchesOpens ==
  (initialized /\ inits = {}) =>
    \A p \in Range(RpfManager_findRpfFiles(rootPath)) :
      mapHas(rpfFiles, replaceBackslashes(pathRelative(rootPath, p)))
        <=> scanStructure(newRpfFile(NoId, p, pathBasename(p), 0, NoId)).ok

entryRead(m, args) ==
  mapGet(m, args[1]).allEntries[findEntry(mapGet(m, args[1]), args[2])]

backslashed(entryPath) ==
  [i \in 1..Len(entryPath) |-> IF entryPath[i] = CH_SLASH THEN CH_BACKSLASH ELSE entryPath[i]]

\* what the segment part stands for below the directory above: the first
\* sub-directory of that name if there is one, the first file of that name
\* otherwise, names compared in lower case
standsFor(es, above, part, c) ==
  LET named(list) == {j \in DOMAIN list : es[list[j]].nameLower = toLowerCase(part)}
      first(list) == list[CHOOSE j \in named(list) : \A l \in named(list) : j <= l]
  IN IF named(es[above].directories) # {}
     THEN c = first(es[above].directories)
     ELSE named(es[above].files) # {} /\ c = first(es[above].files)

\* the entries that the first k segments of parts lead to from the root
RECURSIVE reached(_, _, _)
reached(rpf, parts, k) ==
  IF k = 0 THEN {rpf.root} \ {0}
  ELSE {c \in DOMAIN rpf.allEntries :
          \E above \in reached(rpf, parts, k - 1) :
            /\ isDirectory(rpf.allEntries[above])
            /\ standsFor(rpf.allEntries, above, parts[k], c)}

C10_E1Opens ==
  (initialized /\ initCalls = 1 /\ rootPath = P_g) =>
    /\ mapHas(rpfFiles, N_e1)
    /\ listDirectory(rpfFiles, N_e1, <<>>)
         = [isNull |-> FALSE, directories |-> <<>>, files |-> << <<104, 105>> >>]
    /\ getFileContent(rpfFiles, N_e1, <<104, 105>>, readFd).data = HELLO

\* C11: an archive whose directory record has another identifier than
\* 0x7FFFFF00 is not loaded, and what its open fails with is the error of
\* the directory record, not the error of a file record
C11_SentinelError ==
  (initialized /\ inits = {} /\ rootPath = P_c) =>
    /\ ~mapHas(rpfFiles, N_e1x)
    /\ scanStructure(newRpfFile(NoId, pathJoin(P_c, N_e1x), N_e1x, 0, NoId)).err
         = "InvalidDirectoryEntry"

\* what the open of /c/v8.rpf from a fresh RpfFile gives
openOfV8 == scanStructure(newRpfFile(NoId, pathJoin(P_c, N_v8), N_v8, 0, NoId))

\* C12: no archive of the registry has another version tag than 0x52504637;
\* the open of v8.rpf, whose tag is 0x52504638, fails with the version error
\* having produced no entry, root or child and opened no descriptor but its
\* own, and v8.rpf is not registered
C12_VersionRejected ==
  /\ \A i \in DOMAIN rpfFiles :
       /\ rpfFiles[i].rpf.version = RPF_VERSION
       /\ rpfFiles[i].rpf.filePath # pathJoin(P_c, N_v8)
  /\ (rootPath = P_c) =>
       /\ ~openOfV8.ok
       /\ openOfV8.err = "InvalidVersion"
       /\ openOfV8.rpf.allEntries = <<>>
       /\ openOfV8.rpf.root = 0
       /\ openOfV8.rpf.children = <<>>
       /\ openOfV8.fds = <<fdOpen(NoId), fdClose(NoId)>>

\* the init of /c has completed: v8.rpf was scanned and skipped, and the
\* archives scanned after it are registered
C12_SkippedOnVersion ==
  /\ initialized
  /\ inits = {}
  /\ rootPath = P_c
  /\ ~mapHas(rpfFiles, N_v8)
  /\ mapHas(rpfFiles, N_ng)

\* C13: in every archive of the registry each directory's range of entries
\* ends within the entry table, every entry of a directory's child lists has
\* that directory as parent, no entry is in the child lists of two
\* directories, and the entries without parent are entry 0 alone, which is a
\* directory and the root
C13_Hierarchy ==
  \A i \in DOMAIN rpfFiles :
    LET es == rpfFiles[i].rpf.allEntries
        n  == Len(es)
        listed(d) == IF isDirectory(es[d])
                     THEN Range(es[d].directories) \cup Range(es[d].files)
                     ELSE {}
    IN /\ \A d \in 1..n :
            isDirectory(es[d]) => es[d].entriesIndex + es[d].entriesCount <= n
       /\ \A d \in 1..n : \A c \in listed(d) : es[c].parent = d
       /\ \A c \in 1..n : Cardinality({d \in 1..n : c \in listed(d)}) <= 1
       /\ {c \in 1..n : es[c].parent = 0} = {1}
       /\ isDirectory(es[1])
       /\ rpfFiles[i].rpf.root = 1

\* the k-th whole block of buf
blockOf(buf, k) == SubSeq(buf, 16 * (k - 1) + 1, 16 * k)

\* out is data with each of its floor(len / 16) leading blocks put through
\* block and the len mod 16 bytes after them as they were
ecbOf(data, out, block(_)) ==
  /\ Len(out) = Len(data)
  /\ \A k \in 1..(Len(data) \div 16) : blockOf(out, k) = block(blockOf(data, k))
  /\ \A i \in (16 * (Len(data) \div 16) + 1)..Len(data) : out[i] = data[i]

\* buffers a and b of one length go to buffers that agree in every block in
\* which a and b agree
blockwise(f(_), a) ==
  \A b \in AesArgs :
    Len(b) = Len(a) =>
      \A k \in 1..(Len(a) \div 16) :
        blockOf(a, k) = blockOf(b, k) => blockOf(f(a), k) = blockOf(f(b), k)

\* C14: decryptAES and encryptAES return a buffer of the length of their
\* argument whose leading whole blocks are the deciphered (enciphered) blocks
\* of the argument, each a function of that block alone, and whose remaining
\* bytes are the argument's; each function undoes the other
C14_AesEcb ==
  /\ response.tool = "decryptAES" =>
       /\ ecbOf(response.args, response.payload, aesDecryptBlock)
       /\ blockwise(decryptAES, response.args)
       /\ encryptAES(response.payload) = response.args
  /\ response.tool = "encryptAES" =>
       /\ ecbOf(response.args, response.payload, aesEncryptBlock)
       /\ blockwise(encryptAES, response.args)
       /\ decryptAES(response.payload) = response.args

\* a buffer of two whole blocks and two more bytes has been deciphered: the
\* blocks changed and the two bytes did not
C14_TailKept ==
  /\ response.tool = "decryptAES"
  /\ Len(response.args) = 34
  /\ blockOf(response.payload, 1) # blockOf(response.args, 1)
  /\ blockOf(response.payload, 2) # blockOf(response.args, 2)
  /\ SubSeq(response.payload, 33, 34) = SubSeq(response.args, 33, 34)
  /\ response.args[33] # 0

\* the bytes that the entry e of the archive rpf occupies in the file
storedBytes(rpf, e) ==
  [i \in 1..e.fileSize |->
     byteAt(DiskFiles[rpf.filePath], rpf.startPos + e.fileOffset * BLOCK + i - 1)]

\* content is raw with the mode of the archive taken off
modeTakenOff(encryption, e, raw, content) ==
  IF encryption = ENC_AES THEN ecbOf(raw, content, aesDecryptBlock)
  ELSE IF encryption = ENC_NG
  THEN /\ Len(content) = Len(raw)
       /\ \A i \in 1..Len(raw) :
            content[i] = xorByte(raw[i], generateNGKey(e.name, e.fileUncompressedSize)[((i - 1) % 32) + 1], 8)
  ELSE content = raw

C16_NgUnreadable ==
  /\ \A i \in DOMAIN rpfFiles : rpfFiles[i].rpf.encryption # ENC_NG
  /\ (initialized /\ inits = {} /\ rootPath = P_c) =>
       scanStructure(newRpfFile(NoId, pathJoin(P_c, N_ng), N_ng, 0, NoId)).err = "UnsupportedEncryption"

\* name matches pattern as a glob anchored at both ends: '*' stands for any
\* string, every other character for itself
RECURSIVE globTest(_, _)
globTest(pattern, name) ==
  IF pattern = <<>> THEN name = <<>>
  ELSE IF pattern[1] = CH_STAR
       THEN globTest(Tail(pattern), name) \/ (name # <<>> /\ globTest(pattern, Tail(name)))
  ELSE name # <<>> /\ name[1] = pattern[1] /\ globTest(Tail(pattern), Tail(name))

\* name matches pattern without regard to case
nameMatches(name, pattern) ==
  IF \E k \in DOMAIN pattern : pattern[k] = CH_STAR
  THEN globTest(toLowerCase(pattern), toLowerCase(name))
  ELSE \E k \in 0..(Len(name) - Len(pattern)) :
         SubSeq(toLowerCase(name), k + 1, k + Len(pattern)) = toLowerCase(pattern)

C18_ResourceSize ==
  mapHas(rpfFiles, N_res) =>
    \A c \in 1..2 :
      LET rpf == mapGet(rpfFiles, N_res)
          e   == rpf.allEntries[c]
      IN /\ e.kind = "res"
         /\ e.fileSize = 1
         /\ e.fileUncompressedSize = e.fileSize
         /\ getFileData(e, rpf, readFd).data = <<5>>

RECURSIVE treeHeight(_)
treeHeight(node) ==
  IF node.type = "file" \/ node.children = <<>> THEN 0
  ELSE LET hs == { treeHeight(node.children[k]) : k \in DOMAIN node.children }
       IN 1 + CHOOSE h \in hs : \A x \in hs : x <= h

\* the node of the directory d with levels more levels below it
RECURSIVE treeWithin(_, _, _)
treeWithin(es, d, levels) ==
  [ name |-> IF es[d].name = <<>> THEN <<CH_SLASH>> ELSE es[d].name,
    type |-> "directory",
    children |->
      IF levels <= 0 THEN <<>>
      ELSE [k \in DOMAIN es[d].directories |-> treeWithin(es, es[d].directories[k], levels - 1)]
             \o [k \in DOMAIN es[d].files |->
                   [name |-> es[es[d].files[k]].name, type |-> "file",
                    size |-> es[es[d].files[k]].fileSize,
                    encrypted |-> es[es[d].files[k]].isEncrypted]] ]

\* the directory that the inner path names in the archive; 0 if none
startDir(rpf, directoryPath) ==
  IF directoryPath = <<>> THEN rpf.root
  ELSE LET e == findEntry(rpf, directoryPath)
       IN IF e # 0 /\ isDirectory(rpf.allEntries[e]) THEN e ELSE 0

C22_RegistryOfLastRoot ==
  (initialized /\ inits = {}) =>
    /\ { rpfFiles[i].key : i \in DOMAIN rpfFiles }
         = { replaceBackslashes(pathRelative(rootPath, p)) :
               p \in { q \in Range(RpfManager_findRpfFiles(rootPath)) :
                         scanStructure(newRpfFile(NoId, q, pathBasename(q), 0, NoId)).ok } }
    /\ \A i \in DOMAIN rpfFiles :
         rpfFiles[i].rpf.filePath \in Range(RpfManager_findRpfFiles(rootPath))

\* C23: an 'initialize' call starts a scan if and only if its root exists;
\* a call whose root does not exist is answered with the error of the root
\* and leaves the root path, the registry and the initialized flag as they
\* were
C23_FailedInitKeepsState ==
  [][ (initCalls' = initCalls + 1) =>
        /\ \A call \in inits' \ inits : existsSync(call.initPath)
        /\ (inits' = inits) =>
             /\ response'.tool = "initialize"
             /\ response'.isError
             /\ response'.error = "RootPathDoesNotExist"
             /\ ~existsSync(response'.args[1])
             /\ UNCHANGED <<rootPath, rpfFiles, initialized>> ]_vars

\* an init on /nope was refused after the init of /g had completed: the
\* manager is still initialized on /g with the registry of /g
C23_RefusedAfterLoaded ==
  /\ response.tool = "initialize"
  /\ response.error = "RootPathDoesNotExist"
  /\ response.args = <<P_nope>>
  /\ initialized
  /\ inits = {}
  /\ rootPath = P_g
  /\ mapHas(rpfFiles, N_flat)

\* what the open of the nested archive of the k-th '.rpf' file of rpf gives
nestedOpen(rpf, k) ==
  LET e == rpf.allEntries[RpfFile_findRpfFiles(rpf.allEntries, rpf.root)[k]]
  IN scanStructure(newRpfFile(Append(rpf.id, k), rpf.filePath, e.name,
                              e.fileOffset * BLOCK, rpf.id))

=============================================================================
